---- MODULE Spec2Model ----
(***************************************************************************)
(* Photo synchronisation of ASZ Cam OS: SyncService (sync_service.py) and  *)
(* the upload queue and upload worker of GooglePhotosAPI                   *)
(* (google_photos.py), as a state machine.                                 *)
(***************************************************************************)
EXTENDS Integers, Sequences, FiniteSets, TLC

(***************************************************************************)
(* Bounds of the model and constants of the program.                       *)
(***************************************************************************)
\* settings.sync.max_retry_attempts
max_retry_attempts == 3

\* Largest number of sync_photo calls made by callers in one behaviour.
MaxManualSyncs == 1

\* Largest number of sync worker threads launched in one behaviour.
MaxCycles == 1

\* Largest number of failed transport calls in one behaviour.
MaxFailures == 4

\* Largest number of files renamed in one behaviour.
MaxRenames == 1

\* Largest number of sync worker threads launched in one behaviour of the
\* control specification.
MaxControlCycles == 2

\* Largest number of enable_sync, enable_auto_sync and
\* authenticate_google_photos calls in one behaviour.
MaxSettingsCalls == 1
\* The frames a preview thread makes.
MaxFrames == 2
\* The calls of SystemManager.shutdown in one behaviour.
MaxShutdowns == 2
\* The items GooglePhotosSync.queue_upload appends in one behaviour.
MaxQueueUploads == 3

\* The files that may lie in the photo directory.
AllPaths == {"a.jpg", "b.JPG", "c.png", "d.jpeg", "notes.txt"}

\* Path.suffix and str.lower, on the suffixes that occur.
Suffix(p) ==
    CASE p = "a.jpg" -> ".jpg"
      [] p = "b.JPG" -> ".JPG"
      [] p = "c.png" -> ".png"
      [] p = "d.jpeg" -> ".jpeg"
      [] p = "notes.txt" -> ".txt"

Lower(s) == IF s = ".JPG" THEN ".jpg" ELSE s

image_extensions == {".jpg", ".jpeg", ".png", ".tiff", ".tif", ".bmp", ".webp"}

\* os.path.getmtime of each file: a.jpg is the newest.
Mtime(p) ==
    CASE p = "a.jpg" -> 5
      [] p = "b.JPG" -> 4
      [] p = "c.png" -> 3
      [] p = "d.jpeg" -> 2
      [] p = "notes.txt" -> 1

\* File contents, named by their SHA-256 digest.
Contents == {"h1", "h2", "h3", "h4"}
Absent == "absent"
Unreadable == "unreadable"
NoRecord == "norecord"
NoTask == [pri |-> 0, path |-> "", retry |-> 0]
Malformed == "malformed"

\* The priorities callers pass to sync_photo: 1 is its default (manual),
\* 2 is what the batch pass uses.
Priorities == {1, 2}
BatchPriority == 2

(***************************************************************************)
(* queue.PriorityQueue over (priority, PhotoUploadTask) tuples: a binary   *)
(* heap kept by heapq.  PhotoUploadTask is a dataclass with eq and without *)
(* order, so comparing two tuples of equal priority compares two distinct  *)
(* tasks with < and raises TypeError ("err").  Distinct tasks are never    *)
(* equal: their timestamps differ.                                         *)
(***************************************************************************)
TupleLt(x, y) ==
    IF x.pri < y.pri THEN "lt" ELSE IF x.pri > y.pri THEN "ge" ELSE "err"

\* Positions are heapq's 0-based positions.
At(h, pos) == h[pos + 1]

Swap(h, i, j) == [h EXCEPT ![i + 1] = h[j + 1], ![j + 1] = h[i + 1]]

RECURSIVE siftdown(_, _, _)
siftdown(h, startpos, pos) ==
    IF pos > startpos
    THEN LET parentpos == (pos - 1) \div 2
             cmp == TupleLt(At(h, pos), At(h, parentpos))
         IN  IF cmp = "err" THEN [heap |-> h, ok |-> FALSE]
             ELSE IF cmp = "ge" THEN [heap |-> h, ok |-> TRUE]
             ELSE siftdown(Swap(h, pos, parentpos), startpos, parentpos)
    ELSE [heap |-> h, ok |-> TRUE]

RECURSIVE siftup_loop(_, _, _)
siftup_loop(h, startpos, pos) ==
    LET endpos == Len(h)
        limit == endpos \div 2
    IN  IF pos < limit
        THEN LET left == 2 * pos + 1
                 cmp == IF left + 1 < endpos
                        THEN TupleLt(At(h, left), At(h, left + 1))
                        ELSE "lt"
                 childpos == IF cmp = "ge" THEN left + 1 ELSE left
             IN  IF cmp = "err" THEN [heap |-> h, ok |-> FALSE]
                 ELSE siftup_loop(Swap(h, childpos, pos), startpos, childpos)
        ELSE siftdown(h, startpos, pos)

siftup(h, pos) == siftup_loop(h, pos, pos)

\* heapq.heappush: the item is appended before it is sifted, so it stays in
\* the list when a comparison raises.
heappush(h, item) == siftdown(Append(h, item), 0, Len(h))

\* heapq.heappop: the last item replaces the root before the sift, so the
\* root is gone from the list when a comparison raises.
heappop(h) ==
    LET n == Len(h)
        lastelt == h[n]
        rest == SubSeq(h, 1, n - 1)
    IN  IF n = 1
        THEN [heap |-> rest, ok |-> TRUE, item |-> lastelt]
        ELSE LET r == siftup([rest EXCEPT ![1] = lastelt], 0)
             IN  [heap |-> r.heap, ok |-> r.ok, item |-> h[1]]

(***************************************************************************)
(* State.                                                                  *)
(***************************************************************************)
VARIABLES
    files,                  \* path -> content digest, Absent or Unreadable
    sync_records,           \* path -> file_hash of its record, or NoRecord
    pending_photos,         \* SyncService.pending_photos
    state,                  \* SyncService.state (SyncState)
    stop_event,             \* SyncService._stop_event
    sync_thread,            \* the sync worker thread and its locals
    upload_queue,           \* GooglePhotosAPI.upload_queue (the heap list)
    upload_thread,          \* the upload worker thread and its current task
    upload_thread_running,  \* GooglePhotosAPI.upload_thread_running
    stats,                  \* GooglePhotosAPI.stats
    credentials_valid,      \* credentials is not None and credentials.valid
    service,                \* GooglePhotosAPI.service is not None
    initialized,            \* SyncService.initialize has been called
    settings,               \* settings.sync: enabled, auto_sync
    sync_timer,             \* SyncService.sync_timer is active
    single_shots,           \* pending QTimer.singleShot(_start_sync_process)
    records_file,           \* sync_records.json in the data directory
    caller,                 \* the caller's thread inside SyncService.cleanup
    rpi,                    \* RPiSimulator: GPIO pins and camera LED
    camera,                 \* MockLibCamera and its preview thread
    manager,                \* SystemManager: its services and its shutdown
    photos_sync,            \* GooglePhotosSync: its queue, its failed list
                            \* and its upload worker
    hist                    \* history of the behaviour; the actions read
                            \* only its call counters, to bound the model

vars == <<files, sync_records, pending_photos, state, stop_event, sync_thread,
          upload_queue, upload_thread, upload_thread_running, stats,
          credentials_valid, service, initialized, settings, sync_timer,
          single_shots, records_file, caller, rpi, camera, manager,
          photos_sync, hist>>

FileStates == Contents \cup {Absent, Unreadable}

\* SyncStatus
IDLE == "idle"
SYNCING == "syncing"
ERROR == "error"
PAUSED == "paused"
AUTHENTICATING == "authenticating"

(***************************************************************************)
(* SyncService: hashing, the record store, Discovery.                      *)
(***************************************************************************)
\* _calculate_file_hash: the digest, or "" when the file cannot be read.
_calculate_file_hash(fs, photo_path) ==
    IF fs[photo_path] \in Contents THEN fs[photo_path] ELSE ""

\* Path.exists()
Exists(fs, photo_path) == fs[photo_path] # Absent

\* A lookup by path alone, without lines 424-428: what _is_photo_synced
\* must differ from.
_is_photo_synced_path_only(recs, photo_path, file_hash) ==
    /\ recs[photo_path] # NoRecord
    /\ recs[photo_path] = file_hash

_is_photo_synced(recs, photo_path, file_hash) ==
    IF recs[photo_path] # NoRecord
    THEN recs[photo_path] = file_hash
    ELSE \E q \in AllPaths : recs[q] # NoRecord /\ recs[q] = file_hash

\* sorted(..., key=getmtime, reverse=True) of a set of paths
RECURSIVE SortedByMtime(_)
SortedByMtime(S) ==
    IF S = {} THEN <<>>
    ELSE LET newest == CHOOSE p \in S : \A q \in S : Mtime(q) <= Mtime(p)
         IN  <<newest>> \o SortedByMtime(S \ {newest})

Eligible(fs, p) == Exists(fs, p) /\ Lower(Suffix(p)) \in image_extensions

\* Discovery without the suffix filter of line 402: what
\* _discover_new_photos must differ from.
_discover_new_photos_any_suffix(fs, recs) ==
    SortedByMtime({p \in AllPaths :
        /\ Exists(fs, p)
        /\ ~_is_photo_synced(recs, p, _calculate_file_hash(fs, p))})

_discover_new_photos(fs, recs) ==
    SortedByMtime({p \in AllPaths :
        /\ Eligible(fs, p)
        /\ ~_is_photo_synced(recs, p, _calculate_file_hash(fs, p))})

(***************************************************************************)
(* GooglePhotosAPI.upload_photo and SyncService.sync_photo, as the values  *)
(* they leave behind.                                                      *)
(***************************************************************************)
\* upload_photo: [ok, queue].  A TypeError of the put is caught and gives
\* False, with the task already appended to the heap list.
upload_photo(fs, queue, file_path, priority) ==
    IF ~Exists(fs, file_path)
    THEN [ok |-> FALSE, queue |-> queue, put |-> FALSE]
    ELSE LET r == heappush(queue, [pri |-> priority, path |-> file_path,
                                   retry |-> 0])
         IN  [ok |-> r.ok, queue |-> r.heap, put |-> TRUE]

\* sync_photo: [ret, queue, pending, put, synced]; put says that a task
\* went into the heap list, synced that the photo was found already synced.
sync_photo(fs, recs, queue, pending, photo_path, priority) ==
    IF ~Exists(fs, photo_path)
    THEN [ret |-> FALSE, queue |-> queue, pending |-> pending, put |-> FALSE,
          synced |-> FALSE]
    ELSE IF _is_photo_synced(recs, photo_path,
                             _calculate_file_hash(fs, photo_path))
    THEN [ret |-> TRUE, queue |-> queue, pending |-> pending, put |-> FALSE,
          synced |-> TRUE]
    ELSE LET u == upload_photo(fs, queue, photo_path, priority)
         IN  [ret |-> u.ok, queue |-> u.queue, put |-> u.put,
              synced |-> FALSE,
              pending |-> IF u.ok THEN pending \cup {photo_path}
                          ELSE pending \ {photo_path}]

\* _record_synced_photo: the record's file_hash is computed when recording.
_record_synced_photo(fs, recs, photo_path) ==
    [recs EXCEPT ![photo_path] = _calculate_file_hash(fs, photo_path)]

(***************************************************************************)
(* The persisted record file sync_records.json.  It is missing, holds text *)
(* that json.load rejects (an empty or cut-off file), or holds a JSON      *)
(* document: per path the file_hash of its entry ("" when the entry has    *)
(* none), Malformed for an entry without local_path, filename or a         *)
(* readable sync_time, and the 'state' object.                             *)
(***************************************************************************)
NoEntries == [p \in AllPaths |-> NoRecord]

MissingFile == [kind |-> "missing", records |-> NoEntries,
                total_photos_synced |-> 0, last_sync |-> 0]

\* What open(records_file, 'w') leaves until the dump is written and the
\* file closed.
TruncatedFile == [kind |-> "unparseable", records |-> NoEntries,
                  total_photos_synced |-> 0, last_sync |-> 0]

\* The order in which the document lists its entries, that of .items().
FileOrder == <<"a.jpg", "b.JPG", "c.png", "d.jpeg", "notes.txt">>

\* Lines 476-485: the entries are stored one by one until one raises.
RECURSIVE LoadEntries(_, _, _)
LoadEntries(file, k, recs) ==
    IF k > Len(FileOrder) THEN [records |-> recs, ok |-> TRUE]
    ELSE LET path == FileOrder[k]
         IN  IF file.records[path] = Malformed
             THEN [records |-> recs, ok |-> FALSE]
             ELSE LoadEntries(file, k + 1,
                              [recs EXCEPT ![path] = file.records[path]])

\* _load_sync_records on the empty store of __init__: [records,
\* total_photos_synced, last_sync]; every failure is caught and logged.
_load_sync_records(file) ==
    IF file.kind # "json"
    THEN [records |-> NoEntries, total_photos_synced |-> 0, last_sync |-> 0]
    ELSE LET r == LoadEntries(file, 1, NoEntries)
         IN  IF r.ok
             THEN [records |-> r.records,
                   total_photos_synced |-> file.total_photos_synced,
                   last_sync |-> file.last_sync]
             ELSE [records |-> r.records, total_photos_synced |-> 0,
                   last_sync |-> 0]

\* _save_sync_records: the document that json.dump writes.
_save_sync_records(recs, st) ==
    [kind |-> "json", records |-> recs,
     total_photos_synced |-> st.total_photos_synced,
     last_sync |-> st.last_sync]

\* The file an earlier run left for the records recs: none was written
\* when there was nothing to record.
PersistedFile(recs) ==
    IF recs = NoEntries THEN MissingFile
    ELSE [kind |-> "json", records |-> recs, total_photos_synced |-> 0,
          last_sync |-> 0]

(***************************************************************************)
(* RPiSimulator (rpi_simulator.py): the GPIO pins and the camera LED.      *)
(* Each call is made under gpio_lock and is one step; it gives the new     *)
(* simulator, with the call and what it returned in last.                  *)
(***************************************************************************)
\* The pins callers use: 20, the camera LED pin 32, and 99.
Pins == {20, 32, 99}
CameraLedPin == 32
NoPin == [mode |-> "", value |-> FALSE, pull |-> ""]
Modes == {"IN", "OUT"}
Pulls == {"OFF", "UP"}
NoGpioCall == [op |-> "", pin |-> 0, ret |-> "", n |-> 0]

\* RPiSimulator.__init__
InitRpi == [gpio_pins |-> [pin \in Pins |-> NoPin],
            gpio_initialized |-> FALSE,
            camera_led_state |-> FALSE,
            last |-> NoGpioCall]

\* r with the call written to last.
GpioReturn(r, op, pin, ret) ==
    [r EXCEPT !.last = [op |-> op, pin |-> pin, ret |-> ret,
                        n |-> 1 - r.last.n]]

gpio_setup(r, pin, mode, pull_up_down) ==
    GpioReturn([r EXCEPT
                  !.gpio_initialized = TRUE,
                  !.gpio_pins[pin] = [mode |-> mode, value |-> FALSE,
                                      pull |-> pull_up_down]],
               "gpio_setup", pin, "True")

\* gpio_output without the check of the pin's mode (lines 232-234).
gpio_output_any_mode(r, pin, value) ==
    IF r.gpio_pins[pin] = NoPin
    THEN GpioReturn(r, "gpio_output", pin, "False")
    ELSE GpioReturn([r EXCEPT
                       !.gpio_pins[pin].value = value,
                       !.camera_led_state =
                           IF pin = CameraLedPin THEN value ELSE @],
                    "gpio_output", pin, "True")

gpio_output(r, pin, value) ==
    IF r.gpio_pins[pin] = NoPin
    THEN GpioReturn(r, "gpio_output", pin, "False")
    ELSE IF r.gpio_pins[pin].mode # "OUT"
    THEN GpioReturn(r, "gpio_output", pin, "False")
    ELSE GpioReturn([r EXCEPT
                       !.gpio_pins[pin].value = value,
                       !.camera_led_state =
                           IF pin = CameraLedPin THEN value ELSE @],
                    "gpio_output", pin, "True")

\* gpio_input; read is the value that random gives the pin.
gpio_input(r, pin, read) ==
    IF r.gpio_pins[pin] = NoPin
    THEN GpioReturn(r, "gpio_input", pin, "None")
    ELSE IF r.gpio_pins[pin].mode # "IN"
    THEN GpioReturn(r, "gpio_input", pin, "None")
    ELSE GpioReturn([r EXCEPT !.gpio_pins[pin].value = read],
                    "gpio_input", pin, IF read THEN "True" ELSE "False")

\* gpio_cleanup(pin)
gpio_cleanup(r, pin) ==
    GpioReturn([r EXCEPT !.gpio_pins[pin] = NoPin], "gpio_cleanup", pin, "")

\* gpio_cleanup(), of all pins
gpio_cleanup_all(r) ==
    GpioReturn([r EXCEPT !.gpio_pins = [pin \in Pins |-> NoPin],
                         !.gpio_initialized = FALSE],
               "gpio_cleanup", 0, "")

set_camera_led(r, led) ==
    GpioReturn([r EXCEPT
                  !.camera_led_state = led,
                  !.gpio_pins[CameraLedPin] =
                      IF @ = NoPin THEN @ ELSE [@ EXCEPT !.value = led]],
               "set_camera_led", CameraLedPin, "True")

(***************************************************************************)
(* MockLibCamera (mock_libcamera.py): initialization and the preview.      *)
(***************************************************************************)
NoCameraCall == [op |-> "", ret |-> "", n |-> 0]

\* MockLibCamera.__init__; preview_thread is "none", "running" or "ended";
\* since tells which of a successful start_preview, stop_preview and
\* cleanup came last.
InitCamera == [is_initialized |-> FALSE,
               camera_available |-> TRUE,
               preview_active |-> FALSE,
               preview_thread |-> "none",
               stop_preview_event |-> FALSE,
               frames |-> 0,
               since |-> "",
               last |-> NoCameraCall]

CameraReturn(c, op, ret) ==
    [c EXCEPT !.last = [op |-> op, ret |-> ret, n |-> 1 - c.last.n]]

\* initialize(); ok is whether the asset directory could be prepared.
camera_initialize(c, ok) ==
    IF ok
    THEN CameraReturn([c EXCEPT !.is_initialized = TRUE,
                                !.camera_available = TRUE],
                      "initialize", "True")
    ELSE CameraReturn(c, "initialize", "False")

\* start_preview(); ok is whether the thread could be started.
start_preview(c, ok) ==
    IF ~c.is_initialized THEN CameraReturn(c, "start_preview", "False")
    ELSE IF c.preview_active THEN CameraReturn(c, "start_preview", "True")
    ELSE IF ok
    THEN CameraReturn([c EXCEPT !.stop_preview_event = FALSE,
                                !.preview_thread = "running",
                                !.preview_active = TRUE,
                                !.since = "start_preview"],
                      "start_preview", "True")
    ELSE CameraReturn([c EXCEPT !.stop_preview_event = FALSE],
                      "start_preview", "False")

\* stop_preview(), as the new camera and without the entry in last;
\* joined is whether the thread ended within the 2 seconds of the join.
stop_preview_effect(c, joined) ==
    IF ~c.preview_active THEN c
    ELSE [c EXCEPT !.stop_preview_event = TRUE,
                   !.preview_thread =
                       IF @ = "running" /\ joined THEN "ended" ELSE @,
                   !.preview_active = FALSE]

stop_preview(c, joined) ==
    CameraReturn([stop_preview_effect(c, joined) EXCEPT
                     !.since = "stop_preview"],
                 "stop_preview", "")

\* cleanup() that forgets to stop the preview (line 495).
camera_cleanup_without_stop(c, joined) ==
    CameraReturn([c EXCEPT !.is_initialized = FALSE,
                           !.camera_available = FALSE,
                           !.since = "cleanup"],
                 "cleanup", "")

camera_cleanup(c, joined) ==
    CameraReturn([stop_preview_effect(c, joined) EXCEPT
                     !.is_initialized = FALSE,
                     !.camera_available = FALSE,
                     !.since = "cleanup"],
                 "cleanup", "")

(***************************************************************************)
(* SystemManager (system_manager.py): which of its services exist, and     *)
(* what its shutdown has done; calls counts the calls of shutdown.         *)
(***************************************************************************)
NoManager == [initialize_called |-> FALSE,
              sync_service |-> FALSE, camera_service |-> FALSE,
              main_window |-> FALSE, app |-> FALSE,
              shutdown_in_progress |-> FALSE, sync_stopped |-> FALSE,
              camera_cleaned |-> FALSE, window_closed |-> FALSE,
              config_saved |-> FALSE, app_quit |-> FALSE, calls |-> 0]

\* SystemManager.__init__
InitManager == NoManager

(***************************************************************************)
(* GooglePhotosSync (google_photos_sync.py): upload_queue and              *)
(* failed_uploads are lists of items [path, attempts]; worker is where the *)
(* thread of _upload_worker stands: "none", "head" (at the test of its     *)
(* while loop) or "uploading" (inside the try, the head of the queue in    *)
(* hand); auth_thread says that a thread of authenticate is running;       *)
(* queued counts the items queue_upload has appended.                      *)
(***************************************************************************)
max_attempts == 3

UploadItem(photo_path) == [path |-> photo_path, attempts |-> 0]

\* GooglePhotosSync.__init__ without a credentials file and without a
\* saved queue.
InitPhotosSync == [is_authenticated |-> FALSE, is_uploading |-> FALSE,
                   upload_queue |-> <<>>, failed_uploads |-> <<>>,
                   worker |-> "none", auth_thread |-> FALSE, queued |-> 0]

\* list.pop(i), as the list it leaves (i counts from 1 here)
Pop(list, i) == SubSeq(list, 1, i - 1) \o SubSeq(list, i + 1, Len(list))

\* the paths of the items of a list
Paths(list) == {list[i].path : i \in 1..Len(list)}

\* process_upload_queue, as the new value of the service g.
process_upload_queue(g) ==
    IF ~g.is_authenticated \/ g.is_uploading \/ g.upload_queue = <<>>
    THEN g
    ELSE [g EXCEPT !.is_uploading = TRUE, !.worker = "head"]

\* queue_upload, as the new value of the service g.
queue_upload(g, fs, photo_path) ==
    IF ~Exists(fs, photo_path) THEN g
    ELSE IF photo_path \in Paths(g.upload_queue) THEN g
    ELSE LET q == [g EXCEPT !.upload_queue =
                                Append(@, UploadItem(photo_path)),
                            !.queued = @ + 1]
         IN  IF ~q.is_uploading /\ q.is_authenticated
             THEN process_upload_queue(q)
             ELSE q

\* An attempt of the head of the queue has failed: lines 247-254 (moved is
\* false: the item stays at the head) and lines 260-272 (moved is true: it
\* goes to the end of the queue); at max_attempts it goes to
\* failed_uploads.
AttemptFailed(g, moved) ==
    LET item == [g.upload_queue[1] EXCEPT !.attempts = @ + 1]
    IN  IF item.attempts >= max_attempts
        THEN [g EXCEPT !.upload_queue = Tail(@),
                       !.failed_uploads = Append(@, item)]
        ELSE IF moved
        THEN [g EXCEPT !.upload_queue = Append(Tail(@), item)]
        ELSE [g EXCEPT !.upload_queue = <<item>> \o Tail(@)]

\* process_retry_queue; due is 0 when no failed item is older than five
\* minutes, and else the place in failed_uploads of the first that is.
process_retry_queue(g, due) ==
    IF ~g.is_authenticated \/ g.is_uploading THEN g
    ELSE LET r == IF due = 0 THEN g
                  ELSE [g EXCEPT
                          !.failed_uploads = Pop(@, due),
                          !.upload_queue =
                              Append(@, [g.failed_uploads[due] EXCEPT
                                           !.attempts = 0])]
         IN  IF r.upload_queue # <<>> THEN process_upload_queue(r) ELSE r

\* retry_failed_uploads
retry_failed_uploads(g) ==
    LET r == [g EXCEPT
                !.upload_queue =
                    @ \o [i \in 1..Len(g.failed_uploads) |->
                            [g.failed_uploads[i] EXCEPT !.attempts = 0]],
                !.failed_uploads = <<>>]
    IN  IF ~r.is_uploading /\ r.is_authenticated
        THEN process_upload_queue(r)
        ELSE r

(***************************************************************************)
(* The caller's thread inside SyncService.cleanup: "idle" before the call, *)
(* then "join", "save", "iterate", "open", "dump", "shutdown" and "done";   *)
(* joined is whether the worker had ended when the wait ended, records the *)
(* store as it was then, seen the store as it was when the iteration of    *)
(* _save_sync_records began, document what it prepared for writing.        *)
(***************************************************************************)
NoCaller == [pc |-> "idle", joined |-> FALSE, records |-> NoEntries,
             seen |-> NoEntries, document |-> MissingFile]

(***************************************************************************)
(* Initial state: SyncService() and GooglePhotosAPI() just constructed,    *)
(* the records of the persisted file loaded.                               *)
(***************************************************************************)
\* The photo directory: a.jpg and b.JPG, which holds the bytes of a.jpg or
\* others.
InitFiles ==
    {f \in [AllPaths -> FileStates] :
        /\ f["a.jpg"] = "h1"
        /\ f["b.JPG"] \in {"h1", "h2"}
        /\ \A p \in AllPaths \ {"a.jpg", "b.JPG"} : f[p] = Absent}

\* The persisted records: none, or a.jpg as it is now.
InitRecords ==
    {r \in [AllPaths -> Contents \cup {"", NoRecord}] :
        /\ r["a.jpg"] \in {NoRecord, "h1"}
        /\ \A p \in AllPaths \ {"a.jpg"} : r[p] = NoRecord}

InitSettings == {[enabled |-> TRUE, auto_sync |-> TRUE]}

NoSyncThread == [pc |-> "none", new_photos |-> <<>>, i |-> 0,
                 synced_count |-> 0, stopped |-> FALSE]

NoUploadThread == [pc |-> "none", task |-> NoTask]

InitState == [status |-> IDLE, last_sync |-> 0, last_error |-> "",
              photos_pending |-> 0, photos_synced_today |-> 0,
              total_photos_synced |-> 0, sync_enabled |-> TRUE,
              auto_sync |-> TRUE]

\* An entry of the call log: the call, its force argument, what it
\* returned, the signal it emitted, whether it started a thread, the
\* status it found; n flips with every entry.
NoCall == [op |-> "", force |-> FALSE, ret |-> FALSE, signal |-> "",
           launched |-> FALSE, was |-> "", n |-> 0]

Call(op, force, ret, signal) ==
    [op |-> op, force |-> force, ret |-> ret, signal |-> signal,
     launched |-> FALSE, was |-> state.status, n |-> 0]

\* hist: per path the tasks put into the queue and the uploads that
\* succeeded; the paths sync_photo found already synced; the tasks that
\* left the upload worker or the queue without success; the failed
\* transport calls; the paths with a loaded record; the calls counted for
\* the bounds (sync_photo calls, passes, renames, settings calls) and the
\* largest number of passes; the number of sync worker threads alive;
\* whether the behaviour keeps the call log, and its last entry.
InitHist(recs) ==
    [enqueued |-> [p \in AllPaths |-> 0],
     uploaded |-> [p \in AllPaths |-> 0],
     skipped |-> {}, dropped |-> {}, failed |-> 0,
     loaded |-> {p \in AllPaths : recs[p] # NoRecord},
     manual |-> 0, cycles |-> 0, renames |-> 0, settings_calls |-> 0,
     max_cycles |-> MaxCycles, workers |-> 0, log |-> FALSE,
     call |-> NoCall]

\* h with the call written to the log, where the log is kept.
Log(h, call) ==
    IF h.log /\ call.op # ""
    THEN [h EXCEPT !.call = [call EXCEPT !.n = 1 - h.call.n]]
    ELSE h

\* What every initial state shares.
InitRest ==
    /\ pending_photos = {}
    /\ state = InitState
    /\ stop_event = FALSE
    /\ sync_thread = NoSyncThread
    /\ upload_queue = <<>>
    /\ upload_thread = NoUploadThread
    /\ upload_thread_running = FALSE
    /\ stats = [total_uploads |-> 0, successful_uploads |-> 0,
                failed_uploads |-> 0]
    /\ credentials_valid = FALSE
    /\ service = FALSE
    /\ initialized = FALSE
    /\ sync_timer = FALSE
    /\ single_shots = 0
    /\ caller = NoCaller
    /\ rpi = InitRpi
    /\ camera = InitCamera
    /\ manager = InitManager
    /\ photos_sync = InitPhotosSync
    /\ hist = InitHist(sync_records)

Init ==
    /\ files \in InitFiles
    /\ sync_records \in InitRecords
    /\ records_file = PersistedFile(sync_records)
    /\ settings \in InitSettings
    /\ InitRest

(***************************************************************************)
(* Calls made on the caller's (GUI) thread.                                *)
(***************************************************************************)
is_authenticated == credentials_valid /\ service

sync_thread_is_alive == sync_thread.pc # "none"

\* _start_sync_process without the check of lines 304-305.
_start_sync_process_ignoring_alive ==
    [state |-> [state EXCEPT !.status = SYNCING],
     stop_event |-> FALSE,
     sync_thread |-> [NoSyncThread EXCEPT !.pc = "discover"],
     launched |-> TRUE]

\* _start_sync_process, as the new values of <<state, stop_event,
\* sync_thread>>; launched says that a thread was started.
_start_sync_process ==
    IF sync_thread_is_alive
    THEN [state |-> state, stop_event |-> stop_event,
          sync_thread |-> sync_thread, launched |-> FALSE]
    ELSE [state |-> [state EXCEPT !.status = SYNCING],
          stop_event |-> FALSE,
          sync_thread |-> [NoSyncThread EXCEPT !.pc = "discover"],
          launched |-> TRUE]

\* The part of an action that runs _start_sync_process; call is the
\* action's entry in the call log.
RunStartSyncProcess(call) ==
    LET r == _start_sync_process
    IN  /\ r.launched => hist.cycles < hist.max_cycles
        /\ state' = r.state
        /\ stop_event' = r.stop_event
        /\ sync_thread' = r.sync_thread
        /\ hist' = Log(IF r.launched
                       THEN [hist EXCEPT !.cycles = @ + 1,
                                         !.workers = @ + 1]
                       ELSE hist,
                       [call EXCEPT !.launched = r.launched])

\* _queue_initial_sync, as the new value of single_shots
_queue_initial_sync(st, authenticated, shots) ==
    IF st.sync_enabled /\ authenticated /\ st.status = IDLE
    THEN shots + 1
    ELSE shots

\* initialize(), as what it does to the service and what it leaves alone
\* there; outcome is what google_photos_api.initialize() came to:
\* "noauth" (no valid credentials), "apifail" (credentials loaded and the
\* service built, the connection test failed) or "ok".
initialize_service(outcome) ==
    /\ ~initialized
    /\ initialized' = TRUE
    /\ IF ~settings.enabled
       THEN /\ state' = [state EXCEPT !.sync_enabled = FALSE]
            /\ UNCHANGED <<credentials_valid, service, upload_thread,
                           upload_thread_running, sync_timer, single_shots>>
       ELSE /\ credentials_valid' = (outcome # "noauth")
            /\ service' = (outcome # "noauth")
            /\ upload_thread' =
                   IF outcome = "ok"
                   THEN [upload_thread EXCEPT !.pc = "get"]
                   ELSE upload_thread
            /\ upload_thread_running' =
                   IF outcome = "ok" THEN TRUE ELSE upload_thread_running
            /\ state' = IF outcome = "noauth"
                        THEN [state EXCEPT !.status = AUTHENTICATING]
                        ELSE state
            /\ sync_timer' = settings.auto_sync
            /\ single_shots' =
                   IF outcome # "noauth"
                   THEN _queue_initial_sync(state', TRUE, single_shots)
                   ELSE single_shots
    /\ UNCHANGED <<files, sync_records, pending_photos, stop_event,
                   sync_thread, upload_queue, stats, settings, hist,
                   records_file, caller, rpi>>

\* initialize() called on the service alone.
initialize(outcome) ==
    /\ initialize_service(outcome)
    /\ UNCHANGED <<camera, manager, photos_sync>>

Initialize == \E outcome \in {"noauth", "apifail", "ok"} : initialize(outcome)

\* The delayed initial sync fires: _start_sync_process, with no check.
InitialSyncFire ==
    /\ single_shots > 0
    /\ single_shots' = single_shots - 1
    /\ RunStartSyncProcess(NoCall)
    /\ UNCHANGED <<files, sync_records, pending_photos, upload_queue,
                   upload_thread, upload_thread_running, stats,
                   credentials_valid, service, initialized, settings,
                   sync_timer, records_file,
                   caller, rpi, camera, manager, photos_sync>>

\* start_sync without the check of line 171.
AlreadySyncingNever(force) == FALSE

\* Line 171: a sync is in progress and the caller does not force one.
AlreadySyncing(force) == state.status = SYNCING /\ ~force

start_sync(force) ==
    /\ initialized
    /\ IF ~state.sync_enabled \/ AlreadySyncing(force)
       THEN /\ UNCHANGED <<state, stop_event, sync_thread>>
            /\ hist' = Log(hist, Call("start_sync", force, FALSE, ""))
       ELSE IF ~is_authenticated
       THEN /\ UNCHANGED <<state, stop_event, sync_thread>>
            /\ hist' = Log(hist, Call("start_sync", force, FALSE,
                                      "authentication_required"))
       ELSE RunStartSyncProcess(Call("start_sync", force, TRUE, ""))
    /\ UNCHANGED <<files, sync_records, pending_photos, upload_queue,
                   upload_thread, upload_thread_running, stats,
                   credentials_valid, service, initialized, settings,
                   sync_timer, single_shots, records_file,
                   caller, rpi, camera, manager, photos_sync>>

StartSync == \E force \in BOOLEAN : start_sync(force)

pause_sync ==
    /\ initialized
    /\ state.status = SYNCING
    /\ state' = [state EXCEPT !.status = PAUSED]
    /\ stop_event' = TRUE
    /\ UNCHANGED <<files, sync_records, pending_photos, sync_thread,
                   upload_queue, upload_thread, upload_thread_running, stats,
                   credentials_valid, service, initialized, settings,
                   sync_timer, single_shots, hist, records_file,
                   caller, rpi, camera, manager, photos_sync>>

resume_sync ==
    /\ initialized
    /\ state.status = PAUSED
    /\ state' = [state EXCEPT !.status = IDLE]
    /\ stop_event' = FALSE
    /\ UNCHANGED <<files, sync_records, pending_photos, sync_thread,
                   upload_queue, upload_thread, upload_thread_running, stats,
                   credentials_valid, service, initialized, settings,
                   sync_timer, single_shots, hist, records_file,
                   caller, rpi, camera, manager, photos_sync>>

\* Lines 291-294: what a tick of the timer requires to start a pass.
PeriodicSyncDue ==
    /\ state.sync_enabled
    /\ state.auto_sync
    /\ state.status = IDLE
    /\ is_authenticated

\* _periodic_sync, on a tick of sync_timer
_periodic_sync ==
    /\ sync_timer
    /\ IF PeriodicSyncDue
       THEN RunStartSyncProcess(Call("_periodic_sync", FALSE, TRUE, ""))
       ELSE /\ UNCHANGED <<state, stop_event, sync_thread>>
            /\ hist' = Log(hist, Call("_periodic_sync", FALSE, FALSE, ""))
    /\ UNCHANGED <<files, sync_records, pending_photos, upload_queue,
                   upload_thread, upload_thread_running, stats,
                   credentials_valid, service, initialized, settings,
                   sync_timer, single_shots, records_file,
                   caller, rpi, camera, manager, photos_sync>>

\* enable_sync(enabled); disabling ends with pause_sync().
enable_sync(enabled) ==
    /\ initialized
    /\ hist.settings_calls < MaxSettingsCalls
    /\ IF enabled
       THEN /\ state' = [state EXCEPT !.sync_enabled = TRUE]
            /\ sync_timer' = (settings.auto_sync \/ sync_timer)
            /\ single_shots' =
                   _queue_initial_sync(state', is_authenticated, single_shots)
            /\ stop_event' = stop_event
       ELSE /\ state' = [state EXCEPT
                           !.sync_enabled = FALSE,
                           !.status = IF @ = SYNCING THEN PAUSED ELSE @]
            /\ sync_timer' = FALSE
            /\ single_shots' = single_shots
            /\ stop_event' = (state.status = SYNCING \/ stop_event)
    /\ hist' = [hist EXCEPT !.settings_calls = @ + 1]
    /\ UNCHANGED <<files, sync_records, pending_photos, sync_thread,
                   upload_queue, upload_thread, upload_thread_running, stats,
                   credentials_valid, service, initialized, settings,
                   records_file,
                   caller, rpi, camera, manager, photos_sync>>

EnableSync == \E enabled \in BOOLEAN : enable_sync(enabled)

enable_auto_sync(enabled) ==
    /\ initialized
    /\ hist.settings_calls < MaxSettingsCalls
    /\ state' = [state EXCEPT !.auto_sync = enabled]
    /\ sync_timer' = (enabled /\ state.sync_enabled)
    /\ hist' = [hist EXCEPT !.settings_calls = @ + 1]
    /\ UNCHANGED <<files, sync_records, pending_photos, stop_event,
                   sync_thread, upload_queue, upload_thread,
                   upload_thread_running, stats, credentials_valid, service,
                   initialized, settings, single_shots, records_file,
                   caller, rpi, camera, manager, photos_sync>>

EnableAutoSync == \E enabled \in BOOLEAN : enable_auto_sync(enabled)

\* authenticate_google_photos(credentials_path); success is what
\* google_photos_api.authenticate returned.  authenticate sets the
\* credentials and leaves service as it was.
authenticate_google_photos(success) ==
    /\ initialized
    /\ hist.settings_calls < MaxSettingsCalls
    /\ credentials_valid' = (success \/ credentials_valid)
    /\ state' = IF success
                THEN [state EXCEPT !.status = IDLE]
                ELSE [state EXCEPT !.status = ERROR,
                                   !.last_error = "Authentication failed"]
    /\ single_shots' =
           IF success
           THEN _queue_initial_sync(state', credentials_valid' /\ service,
                                    single_shots)
           ELSE single_shots
    /\ hist' = [hist EXCEPT !.settings_calls = @ + 1]
    /\ UNCHANGED <<files, sync_records, pending_photos, stop_event,
                   sync_thread, upload_queue, upload_thread,
                   upload_thread_running, stats, service, initialized,
                   settings, sync_timer, records_file,
                   caller, rpi, camera, manager, photos_sync>>

AuthenticateGooglePhotos ==
    \E success \in BOOLEAN : authenticate_google_photos(success)

\* A caller's sync_photo(photo_path, priority)
CallSyncPhoto(photo_path, priority) ==
    LET r == sync_photo(files, sync_records, upload_queue, pending_photos,
                        photo_path, priority)
    IN  /\ initialized
        /\ hist.manual < MaxManualSyncs
        /\ upload_queue' = r.queue
        /\ pending_photos' = r.pending
        /\ state' = IF r.ret /\ r.put
                    THEN [state EXCEPT
                            !.photos_pending = Cardinality(r.pending)]
                    ELSE state
        /\ hist' = [hist EXCEPT
                      !.manual = @ + 1,
                      !.enqueued[photo_path] = IF r.put THEN @ + 1 ELSE @,
                      !.skipped = IF r.synced THEN @ \cup {photo_path}
                                  ELSE @]
        /\ UNCHANGED <<files, sync_records, stop_event, sync_thread,
                       upload_thread, upload_thread_running, stats,
                       credentials_valid, service, initialized, settings,
                       sync_timer, single_shots, records_file,
                       caller, rpi, camera, manager, photos_sync>>

ManualSyncPhoto ==
    \E photo_path \in AllPaths, priority \in Priorities :
        CallSyncPhoto(photo_path, priority)

(***************************************************************************)
(* The sync worker thread: SyncService._sync_worker.                       *)
(***************************************************************************)
\* Discovery with a return at line 338 that leaves the status as it was.
WorkerDiscoverKeepingStatus ==
    LET new_photos == _discover_new_photos(files, sync_records)
    IN  /\ sync_thread.pc = "discover"
        /\ state' = state
        /\ IF Len(new_photos) = 0
           THEN /\ sync_thread' = NoSyncThread
                /\ hist' = [hist EXCEPT !.workers = @ - 1]
           ELSE /\ sync_thread' = [sync_thread EXCEPT
                                     !.pc = "loop",
                                     !.new_photos = new_photos,
                                     !.i = 1]
                /\ hist' = hist
        /\ UNCHANGED <<files, sync_records, pending_photos, stop_event,
                       upload_queue, upload_thread, upload_thread_running,
                       stats, credentials_valid, service, initialized,
                       settings, sync_timer, single_shots, records_file,
                       caller, rpi, camera, manager, photos_sync>>

\* Lines 331-341: Discovery; with no candidate the pass ends at once.
WorkerDiscover ==
    LET new_photos == _discover_new_photos(files, sync_records)
    IN  /\ sync_thread.pc = "discover"
        /\ IF Len(new_photos) = 0
           THEN /\ state' = [state EXCEPT !.status = IDLE]
                /\ sync_thread' = NoSyncThread
                /\ hist' = [hist EXCEPT !.workers = @ - 1]
           ELSE /\ state' = state
                /\ sync_thread' = [sync_thread EXCEPT
                                     !.pc = "loop",
                                     !.new_photos = new_photos,
                                     !.i = 1]
                /\ hist' = hist
        /\ UNCHANGED <<files, sync_records, pending_photos, stop_event,
                       upload_queue, upload_thread, upload_thread_running,
                       stats, credentials_valid, service, initialized,
                       settings, sync_timer, single_shots, records_file,
                       caller, rpi, camera, manager, photos_sync>>

\* Lines 345-348: the head of the for loop and its stop check.
WorkerLoop ==
    /\ sync_thread.pc = "loop"
    /\ sync_thread' =
           IF sync_thread.i > Len(sync_thread.new_photos) \/ stop_event
           THEN [sync_thread EXCEPT !.pc = "update"]
           ELSE [sync_thread EXCEPT !.pc = "photo"]
    /\ UNCHANGED <<files, sync_records, pending_photos, state, stop_event,
                   upload_queue, upload_thread, upload_thread_running, stats,
                   credentials_valid, service, initialized, settings,
                   sync_timer, single_shots, hist, records_file,
                   caller, rpi, camera, manager, photos_sync>>

\* Lines 350-359: sync_photo at priority 2 and, when it returns True,
\* _record_synced_photo.
WorkerPhotoRecord(photo_path, r) ==
    IF r.ret
    THEN /\ sync_records' = _record_synced_photo(files, sync_records,
                                                 photo_path)
         /\ pending_photos' = r.pending \ {photo_path}
    ELSE /\ sync_records' = sync_records
         /\ pending_photos' = r.pending

WorkerPhoto ==
    LET photo_path == sync_thread.new_photos[sync_thread.i]
        r == sync_photo(files, sync_records, upload_queue, pending_photos,
                        photo_path, BatchPriority)
    IN  /\ sync_thread.pc = "photo"
        /\ upload_queue' = r.queue
        /\ WorkerPhotoRecord(photo_path, r)
        /\ state' = IF r.ret /\ r.put
                    THEN [state EXCEPT
                            !.photos_pending = Cardinality(r.pending)]
                    ELSE state
        /\ sync_thread' = [sync_thread EXCEPT
                             !.pc = "loop",
                             !.i = @ + 1,
                             !.synced_count = IF r.ret THEN @ + 1 ELSE @]
        /\ hist' = [hist EXCEPT
                      !.enqueued[photo_path] = IF r.put THEN @ + 1 ELSE @,
                      !.skipped = IF r.synced THEN @ \cup {photo_path}
                                  ELSE @]
        /\ UNCHANGED <<files, stop_event, upload_thread,
                       upload_thread_running, stats, credentials_valid,
                       service, initialized, settings, sync_timer,
                       single_shots, records_file,
                       caller, rpi, camera, manager, photos_sync>>

\* Lines 365-369: the counters, last_sync, and the read of the stop event.
WorkerUpdate ==
    /\ sync_thread.pc = "update"
    /\ state' = [state EXCEPT
                   !.photos_synced_today = @ + sync_thread.synced_count,
                   !.total_photos_synced = @ + sync_thread.synced_count,
                   !.last_sync = hist.cycles]
    /\ sync_thread' = [sync_thread EXCEPT !.pc = "finish",
                                          !.stopped = stop_event]
    /\ UNCHANGED <<files, sync_records, pending_photos, stop_event,
                   upload_queue, upload_thread, upload_thread_running, stats,
                   credentials_valid, service, initialized, settings,
                   sync_timer, single_shots, hist, records_file,
                   caller, rpi, camera, manager, photos_sync>>

\* The end of the pass without lines 370-373.
WorkerFinishKeepingStatus ==
    /\ sync_thread.pc = "finish"
    /\ sync_thread' = [sync_thread EXCEPT !.pc = "save"]
    /\ UNCHANGED <<files, sync_records, pending_photos, state, stop_event,
                   upload_queue, upload_thread, upload_thread_running, stats,
                   credentials_valid, service, initialized, settings,
                   sync_timer, single_shots, hist, records_file,
                   caller, rpi, camera, manager, photos_sync>>

\* Lines 370-374: the status.
WorkerFinish ==
    /\ sync_thread.pc = "finish"
    /\ state' = [state EXCEPT
                   !.status = IF sync_thread.stopped THEN PAUSED ELSE IDLE]
    /\ sync_thread' = [sync_thread EXCEPT !.pc = "save"]
    /\ UNCHANGED <<files, sync_records, pending_photos, stop_event,
                   upload_queue, upload_thread, upload_thread_running, stats,
                   credentials_valid, service, initialized, settings,
                   sync_timer, single_shots, hist, records_file,
                   caller, rpi, camera, manager, photos_sync>>

\* Lines 375, 501-527: _save_sync_records opens the record file for
\* writing, in place.
WorkerSaveOpen ==
    /\ sync_thread.pc = "save"
    /\ records_file' = TruncatedFile
    /\ sync_thread' = [sync_thread EXCEPT !.pc = "dump"]
    /\ UNCHANGED <<files, sync_records, pending_photos, state, stop_event,
                   upload_queue, upload_thread, upload_thread_running, stats,
                   credentials_valid, service, initialized, settings,
                   sync_timer, single_shots, hist,
                   caller, rpi, camera, manager, photos_sync>>

\* Lines 528, 377-386: the dump is written, the file closed, and the
\* thread ends.
WorkerSaveDump ==
    /\ sync_thread.pc = "dump"
    /\ records_file' = _save_sync_records(sync_records, state)
    /\ sync_thread' = NoSyncThread
    /\ hist' = [hist EXCEPT !.workers = @ - 1]
    /\ UNCHANGED <<files, sync_records, pending_photos, state, stop_event,
                   upload_queue, upload_thread, upload_thread_running, stats,
                   credentials_valid, service, initialized, settings,
                   sync_timer, single_shots,
                   caller, rpi, camera, manager, photos_sync>>

\* Lines 530-531, 377-386: the write of the record file raises, at the
\* open (the file is as it was) or during the dump (the file stays cut
\* off); _save_sync_records logs the exception and returns, and the
\* thread ends.
WorkerSaveFails ==
    /\ sync_thread.pc \in {"save", "dump"}
    /\ sync_thread' = NoSyncThread
    /\ hist' = [hist EXCEPT !.workers = @ - 1]
    /\ UNCHANGED <<files, sync_records, pending_photos, state, stop_event,
                   upload_queue, upload_thread, upload_thread_running, stats,
                   credentials_valid, service, initialized, settings,
                   sync_timer, single_shots, records_file,
                   caller, rpi, camera, manager, photos_sync>>

(***************************************************************************)
(* The upload worker thread: GooglePhotosAPI._upload_worker.  The result   *)
(* of _upload_single_photo is the transport's: success or failure.         *)
(***************************************************************************)
\* Line 265: upload_queue.get.  A TypeError of the heappop is caught at
\* line 284; the root of the heap is then gone.
UploadGet ==
    LET r == heappop(upload_queue)
    IN  /\ upload_thread.pc = "get"
        /\ upload_thread_running
        /\ upload_queue # <<>>
        /\ upload_queue' = r.heap
        /\ upload_thread' = IF r.ok
                            THEN [pc |-> "upload", task |-> r.item]
                            ELSE upload_thread
        /\ hist' = IF r.ok THEN hist
                   ELSE [hist EXCEPT !.dropped = @ \cup
                           {[path |-> r.item.path, attempts |-> r.item.retry,
                             counted |-> FALSE]}]
        /\ UNCHANGED <<files, sync_records, pending_photos, state,
                       stop_event, sync_thread, upload_thread_running, stats,
                       credentials_valid, service, initialized, settings,
                       sync_timer, single_shots, records_file,
                       caller, rpi, camera, manager, photos_sync>>

\* An upload worker that a failed transport call ends.
UploadReturnAborting(success) ==
    /\ upload_thread.pc = "upload"
    /\ ~success => hist.failed < MaxFailures
    /\ IF success
       THEN /\ upload_thread' = [pc |-> "get", task |-> NoTask]
            /\ upload_thread_running' = upload_thread_running
            /\ stats' = [stats EXCEPT !.total_uploads = @ + 1,
                                      !.successful_uploads = @ + 1]
            /\ hist' = [hist EXCEPT
                          !.uploaded[upload_thread.task.path] = @ + 1]
       ELSE /\ upload_thread' = NoUploadThread
            /\ upload_thread_running' = FALSE
            /\ stats' = stats
            /\ hist' = [hist EXCEPT !.failed = @ + 1]
    /\ UNCHANGED <<files, sync_records, pending_photos, state, stop_event,
                   sync_thread, upload_queue, credentials_valid, service,
                   initialized, settings, sync_timer, single_shots,
                   records_file, caller, rpi, camera, manager, photos_sync>>

\* The retry condition taken on the count after its increment.
RetryAllowedAfterIncrement(task) == task.retry + 1 < max_retry_attempts

\* Lines 269-280: the upload returns; a failure below the ceiling goes on
\* to the backoff sleep, anything else is counted.
RetryAllowed(task) == task.retry < max_retry_attempts

UploadReturn(success) ==
    LET task == upload_thread.task
    IN  /\ upload_thread.pc = "upload"
        /\ ~success => hist.failed < MaxFailures
        /\ IF ~success /\ RetryAllowed(task)
           THEN /\ upload_thread' =
                       [pc |-> "backoff",
                        task |-> [task EXCEPT !.retry = @ + 1]]
                /\ stats' = stats
           ELSE /\ upload_thread' = [pc |-> "get", task |-> NoTask]
                /\ stats' = [stats EXCEPT
                       !.total_uploads = @ + 1,
                       !.successful_uploads = IF success THEN @ + 1 ELSE @,
                       !.failed_uploads = IF success THEN @ ELSE @ + 1]
        /\ hist' =
               IF success
               THEN [hist EXCEPT !.uploaded[task.path] = @ + 1]
               ELSE IF RetryAllowed(task)
               THEN [hist EXCEPT !.failed = @ + 1]
               ELSE [hist EXCEPT !.failed = @ + 1,
                                 !.dropped = @ \cup
                                    {[path |-> task.path,
                                      attempts |-> task.retry + 1,
                                      counted |-> TRUE]}]
        /\ UNCHANGED <<files, sync_records, pending_photos, state,
                       stop_event, sync_thread, upload_queue,
                       upload_thread_running, credentials_valid, service,
                       initialized, settings, sync_timer, single_shots,
                       records_file,
                       caller, rpi, camera, manager, photos_sync>>

UploadSucceeds == UploadReturn(TRUE)

UploadFails == UploadReturn(FALSE)

\* Lines 273-274: after the sleep the task is put back; the put appends it
\* also when its comparison raises.
UploadRetryPut ==
    /\ upload_thread.pc = "backoff"
    /\ upload_queue' = heappush(upload_queue, upload_thread.task).heap
    /\ upload_thread' = [pc |-> "get", task |-> NoTask]
    /\ UNCHANGED <<files, sync_records, pending_photos, state, stop_event,
                   sync_thread, upload_thread_running, stats,
                   credentials_valid, service, initialized, settings,
                   sync_timer, single_shots, hist, records_file,
                   caller, rpi, camera, manager, photos_sync>>

(***************************************************************************)
(* The specification.                                                      *)
(***************************************************************************)
Next ==
    \/ Initialize
    \/ InitialSyncFire
    \/ StartSync
    \/ pause_sync
    \/ resume_sync
    \/ _periodic_sync
    \/ ManualSyncPhoto
    \/ WorkerDiscover
    \/ WorkerLoop
    \/ WorkerPhoto
    \/ WorkerUpdate
    \/ WorkerFinish
    \/ WorkerSaveOpen
    \/ WorkerSaveDump
    \/ UploadGet
    \/ UploadSucceeds
    \/ UploadFails
    \/ UploadRetryPut

Spec == Init /\ [][Next]_vars

(***************************************************************************)
(* Claims about the engine, checked under Spec.                            *)
(***************************************************************************)
RECURSIVE Range(_)
Range(seq) == IF seq = <<>> THEN {} ELSE {Head(seq)} \cup Range(Tail(seq))

QueuedPaths == {upload_queue[k].path : k \in 1..Len(upload_queue)}

\* C1: while no transport call has failed, every path has been put into the
\* upload queue at most once and uploaded at most once.
C1_NoDuplicateUploads ==
    hist.failed = 0 =>
        \A p \in AllPaths : hist.enqueued[p] <= 1 /\ hist.uploaded[p] <= 1

\* C2: a path has a record only if an upload of it has returned success or
\* its record was loaded from the persisted file.
C2_RecordOnlyAfterUpload ==
    \A p \in AllPaths :
        sync_records[p] # NoRecord =>
            hist.uploaded[p] > 0 \/ p \in hist.loaded

\* C3: a task whose transport calls all failed, and that is no longer
\* queued nor with the upload worker, has been attempted exactly
\* max_retry_attempts + 1 times and has been counted as failed.
C3_RetryCeiling ==
    \A d \in hist.dropped :
        d.attempts >= 1 =>
            d.attempts = max_retry_attempts + 1 /\ d.counted

\* C4: the upload queue never holds two tasks for one path.
C4_OneQueuedTaskPerPath ==
    \A j, k \in 1..Len(upload_queue) :
        upload_queue[j].path = upload_queue[k].path => j = k

\* C5: while a task stays in upload, the status does not become Paused.
C5_PauseAfterUpload ==
    [][(upload_thread.pc = "upload" /\ upload_thread'.pc = "upload"
            /\ state.status # PAUSED)
        => state'.status # PAUSED]_vars

\* C10: photos_synced_today and total_photos_synced count no more than the
\* uploads that succeeded; with every transport call failing they stay 0.
C10_CountersReflectUploads ==
    /\ state.photos_synced_today <= stats.successful_uploads
    /\ state.total_photos_synced <= stats.successful_uploads

\* C12: every sync_photo that puts a task for an existing file into the
\* queue is told that the put succeeded, and every get of the upload worker
\* hands it a task whose priority number is the lowest in the queue.
C12_QueueOrdering ==
    [][/\ \A p \in AllPaths, pri \in Priorities :
            (/\ hist'.enqueued[p] > hist.enqueued[p]
             /\ upload_queue' =
                    upload_photo(files, upload_queue, p, pri).queue)
                => upload_photo(files, upload_queue, p, pri).ok
       /\ (upload_thread.pc = "get"
                /\ Len(upload_queue') < Len(upload_queue))
            => /\ upload_thread'.pc = "upload"
               /\ \A k \in 1..Len(upload_queue) :
                    upload_thread'.task.pri <= upload_queue[k].pri]_vars

\* C18: a sync_photo that puts a task into the queue leaves an upload
\* worker running, so that the task can be dequeued.
C18_EnqueueStartsWorker ==
    [][\A p \in AllPaths :
        hist'.enqueued[p] > hist.enqueued[p]
            => upload_thread'.pc # "none" /\ upload_thread_running']_vars

(***************************************************************************)
(* A fresh start and one sync pass: the persisted records are loaded, the  *)
(* delayed initial sync runs one pass, every transport call succeeds, and  *)
(* no caller interferes.                                                   *)
(***************************************************************************)
\* a.jpg and b.JPG are new; c.png is new or missing; d.jpeg is missing, or
\* is there with its record.
InitRestart ==
    /\ files \in {f \in [AllPaths -> FileStates] :
            /\ f["a.jpg"] = "h1"
            /\ f["b.JPG"] = "h2"
            /\ f["c.png"] \in {"h3", Absent}
            /\ f["d.jpeg"] \in {"h4", Absent}
            /\ f["notes.txt"] = Absent}
    /\ sync_records =
            [p \in AllPaths |->
                IF p = "d.jpeg" /\ files[p] # Absent THEN "h4" ELSE NoRecord]
    /\ records_file = PersistedFile(sync_records)
    /\ settings \in InitSettings
    /\ InitRest

NextRestart ==
    \/ Initialize
    \/ InitialSyncFire
    \/ WorkerDiscover
    \/ WorkerLoop
    \/ WorkerPhoto
    \/ WorkerUpdate
    \/ WorkerFinish
    \/ WorkerSaveOpen
    \/ WorkerSaveDump
    \/ UploadGet
    \/ UploadSucceeds

SpecRestart == InitRestart /\ [][NextRestart]_vars

\* The pass has ended in Idle and the upload worker has emptied the queue.
PassDone ==
    /\ hist.cycles = 1
    /\ sync_thread.pc = "none"
    /\ state.status = IDLE
    /\ upload_thread.pc = "get"
    /\ upload_queue = <<>>

\* C6: after a fresh start and one pass, exactly the files that had no
\* loaded record have been uploaded, each once.
C6_RestartSafety ==
    PassDone =>
        \A p \in AllPaths :
            hist.uploaded[p] =
                IF Eligible(files, p) /\ p \notin hist.loaded THEN 1 ELSE 0

\* C7: Discovery run right after a pass in which every upload succeeded
\* yields no candidate.
C7_DiscoveryIdempotent ==
    PassDone => _discover_new_photos(files, sync_records) = <<>>

(***************************************************************************)
(* Discovery on any directory and any record store.                        *)
(***************************************************************************)
\* a.jpg, b.JPG and c.png: missing, unreadable or one of two contents, with
\* no record or a record of any hash, also the empty one of a record loaded
\* without file_hash; notes.txt may be there; d.jpeg may be there and may
\* have a record of other bytes.
InitDiscovery ==
    /\ files \in {f \in [AllPaths -> {Absent, Unreadable, "h1", "h2"}] :
            /\ f["notes.txt"] \in {Absent, "h1"}
            /\ f["d.jpeg"] \in {Absent, "h1"}}
    /\ sync_records \in {r \in [AllPaths -> {NoRecord, "", "h1", "h2"}] :
            /\ r["notes.txt"] = NoRecord
            /\ r["d.jpeg"] \in {NoRecord, "h2"}}
    /\ records_file = PersistedFile(sync_records)
    /\ settings \in InitSettings
    /\ InitRest

NextDiscovery ==
    \/ Initialize
    \/ InitialSyncFire
    \/ WorkerDiscover

SpecDiscovery == InitDiscovery /\ [][NextDiscovery]_vars

\* The step of the sync worker that runs Discovery; its result is the
\* worker's new_photos, empty when the pass ends at once.
DiscoveryStep == sync_thread.pc = "discover" /\ sync_thread'.pc # "discover"

HashOf(p) == _calculate_file_hash(files, p)

\* C9, as claimed: Discovery returns exactly the eligible files that have
\* no record or whose record's hash differs from their content.
C9_DiscoveryAsClaimed ==
    [][DiscoveryStep =>
        Range(sync_thread'.new_photos) =
            {p \in AllPaths :
                /\ Eligible(files, p)
                /\ (sync_records[p] = NoRecord
                        \/ sync_records[p] # HashOf(p))}]_vars

\* C9, amended: Discovery returns exactly the eligible files whose own
\* record has another hash than their content, and those that have no
\* record and whose hash is the file_hash of no record at all.
C9_DiscoveryYieldsUnsynced ==
    [][DiscoveryStep =>
        Range(sync_thread'.new_photos) =
            {p \in AllPaths :
                /\ Eligible(files, p)
                /\ IF sync_records[p] = NoRecord
                   THEN \A q \in AllPaths : sync_records[q] # HashOf(p)
                   ELSE sync_records[p] # HashOf(p)}]_vars

\* Discovery has returned a new file and a changed file, and has left out
\* an unchanged file and an unrecorded file whose bytes another record has.
C9_Witness ==
    /\ sync_thread.pc = "loop"
    /\ \E n, c, u, d \in AllPaths :
        /\ n \in Range(sync_thread.new_photos) /\ sync_records[n] = NoRecord
        /\ c \in Range(sync_thread.new_photos) /\ sync_records[c] # NoRecord
        /\ Eligible(files, u) /\ sync_records[u] = HashOf(u)
        /\ u \notin Range(sync_thread.new_photos)
        /\ Eligible(files, d) /\ sync_records[d] = NoRecord
        /\ d \notin Range(sync_thread.new_photos)

\* C11: _is_photo_synced(path, hash) is true exactly when some record of
\* the store, under this path or another, has that file_hash.
C11_IsSyncedIffHashRecorded ==
    \A p \in AllPaths, h \in {"", "h1", "h2"} :
        _is_photo_synced(sync_records, p, h)
            <=> \E q \in AllPaths :
                    sync_records[q] # NoRecord /\ sync_records[q] = h

\* C29: a file whose hashing fails is not among the candidates that
\* Discovery returns, and every other eligible file that is not synced is.
C29_UnreadableSkipped ==
    [][DiscoveryStep =>
        /\ \A p \in AllPaths :
              files[p] = Unreadable
                  => p \notin Range(sync_thread'.new_photos)
        /\ \A p \in AllPaths :
              (/\ Eligible(files, p)
               /\ files[p] # Unreadable
               /\ ~_is_photo_synced(sync_records, p, HashOf(p)))
                  => p \in Range(sync_thread'.new_photos)]_vars

(***************************************************************************)
(* Renamed files: a file is moved to a path that was free.                 *)
(***************************************************************************)
RenameFile(old, new) ==
    /\ hist.renames < MaxRenames
    /\ files[old] # Absent
    /\ files[new] = Absent
    /\ files' = [files EXCEPT ![old] = Absent, ![new] = files[old]]
    /\ hist' = [hist EXCEPT !.renames = @ + 1]
    /\ UNCHANGED <<sync_records, pending_photos, state, stop_event,
                   sync_thread, upload_queue, upload_thread,
                   upload_thread_running, stats, credentials_valid, service,
                   initialized, settings, sync_timer, single_shots,
                   records_file,
                   caller, rpi, camera, manager, photos_sync>>

Rename == \E old \in AllPaths, new \in {"c.png", "d.jpeg"} : RenameFile(old, new)

NextRename ==
    \/ Initialize
    \/ InitialSyncFire
    \/ StartSync
    \/ ManualSyncPhoto
    \/ Rename
    \/ WorkerDiscover
    \/ WorkerLoop
    \/ WorkerPhoto
    \/ WorkerUpdate
    \/ WorkerFinish
    \/ WorkerSaveOpen
    \/ WorkerSaveDump
    \/ UploadGet
    \/ UploadSucceeds

\* a.jpg alone, with its record or without.
InitRename ==
    /\ files = [p \in AllPaths |-> IF p = "a.jpg" THEN "h1" ELSE Absent]
    /\ sync_records \in InitRecords
    /\ records_file = PersistedFile(sync_records)
    /\ settings \in InitSettings
    /\ InitRest

SpecRename == InitRename /\ [][NextRename]_vars

\* p is a file without a record whose hash is that of another path's record.
RecordedElsewhere(p) ==
    /\ Exists(files, p)
    /\ sync_records[p] = NoRecord
    /\ \E q \in AllPaths \ {p} :
            sync_records[q] # NoRecord /\ sync_records[q] = HashOf(p)

InitControl ==
    /\ files = [p \in AllPaths |-> IF p = "a.jpg" THEN "h1" ELSE Absent]
    /\ sync_records = NoEntries
    /\ records_file = PersistedFile(sync_records)
    /\ settings \in [enabled : BOOLEAN, auto_sync : BOOLEAN]
    /\ pending_photos = {}
    /\ state = InitState
    /\ stop_event = FALSE
    /\ sync_thread = NoSyncThread
    /\ upload_queue = <<>>
    /\ upload_thread = NoUploadThread
    /\ upload_thread_running = FALSE
    /\ stats = [total_uploads |-> 0, successful_uploads |-> 0,
                failed_uploads |-> 0]
    /\ credentials_valid = FALSE
    /\ service = FALSE
    /\ initialized = FALSE
    /\ sync_timer = FALSE
    /\ single_shots = 0
    /\ caller = NoCaller
    /\ rpi = InitRpi
    /\ camera = InitCamera
    /\ manager = InitManager
    /\ photos_sync = InitPhotosSync
    /\ hist = [InitHist(sync_records) EXCEPT
                  !.max_cycles = MaxControlCycles, !.log = TRUE]

NextControl ==
    \/ Initialize
    \/ InitialSyncFire
    \/ StartSync
    \/ pause_sync
    \/ resume_sync
    \/ _periodic_sync
    \/ EnableSync
    \/ EnableAutoSync
    \/ AuthenticateGooglePhotos
    \/ WorkerDiscover
    \/ WorkerLoop
    \/ WorkerPhoto
    \/ WorkerUpdate
    \/ WorkerFinish
    \/ WorkerSaveOpen
    \/ WorkerSaveDump

SpecControl == InitControl /\ [][NextControl]_vars

\* C35: while the status is Syncing a worker thread is alive and has not
\* yet written the status of its pass's end.
C35_SyncingHasWorker ==
    state.status = SYNCING
        => sync_thread.pc \in {"discover", "loop", "photo", "update",
                               "finish"}

\* The second worker of a behaviour is inside its loop, the status
\* Syncing.
C35_Witness ==
    /\ state.status = SYNCING
    /\ sync_thread.pc = "photo"
    /\ hist.cycles = 2

\* The step of a logged call.
Called(op) == hist'.call.n # hist.call.n /\ hist'.call.op = op

\* The step leaves everything but the call log as it was.
NothingButLog ==
    /\ UNCHANGED <<files, sync_records, pending_photos, state, stop_event,
                   sync_thread, upload_queue, upload_thread,
                   upload_thread_running, stats, credentials_valid, service,
                   initialized, settings, sync_timer, single_shots,
                   records_file,
                   caller, rpi, camera, manager, photos_sync>>
    /\ hist' = [hist EXCEPT !.call = hist'.call]

\* C13: start_sync(force=False) called while the status is Syncing returns
\* False, launches no worker and changes nothing.
C13_StartSyncNoOpWhileSyncing ==
    [][(Called("start_sync") /\ ~hist'.call.force
            /\ state.status = SYNCING)
        => /\ ~hist'.call.ret
           /\ ~hist'.call.launched
           /\ NothingButLog]_vars

\* start_sync(False) has returned False on an enabled, authenticated
\* engine whose status was Syncing and whose worker is running.
C13_Witness ==
    /\ hist.call.op = "start_sync"
    /\ ~hist.call.force
    /\ ~hist.call.ret
    /\ hist.call.was = SYNCING
    /\ state.status = SYNCING
    /\ state.sync_enabled
    /\ is_authenticated
    /\ sync_thread.pc = "photo"

C15_LaunchOnlyEnabledAuthenticated ==
    [][hist'.cycles > hist.cycles
        => state.sync_enabled /\ is_authenticated]_vars

\* C16: start_sync on an enabled, unauthenticated engine whose status is
\* Idle sets the status to Authenticating, emits authentication_required
\* and launches no worker.
C16_IdleToAuthenticating ==
    [][(Called("start_sync") /\ state.status = IDLE
            /\ state.sync_enabled /\ ~is_authenticated)
        => /\ state'.status = AUTHENTICATING
           /\ hist'.call.signal = "authentication_required"
           /\ ~hist'.call.launched]_vars

\* C17: a tick of the timer launches a worker and sets the status to
\* Syncing when sync and auto_sync are enabled, the status is Idle and the
\* transport is authenticated; any other tick changes nothing.
C17_PeriodicTick ==
    [][Called("_periodic_sync")
        => IF PeriodicSyncDue
           THEN hist'.call.launched /\ state'.status = SYNCING
           ELSE NothingButLog]_vars

\* The step of resume_sync on a paused engine (lines 205-208).
ResumeStep ==
    /\ state.status = PAUSED
    /\ state' = [state EXCEPT !.status = IDLE]
    /\ stop_event' = FALSE
    /\ sync_thread' = sync_thread
    /\ hist' = hist

\* C31: a Paused status changes only by resume_sync, to Idle, or to Error;
\* start_sync, the timer and the end of a worker leave it, and no worker
\* is launched while the status is Paused.
C31_PausedUntilResume ==
    [][state.status = PAUSED
        => /\ state'.status \in {PAUSED, ERROR} \/ ResumeStep
           /\ hist'.cycles = hist.cycles]_vars

\* The sync worker is inside its loop over the photos (lines 345-362).
ProcessingPhotos == sync_thread.pc \in {"loop", "photo"}

\* The step of pause_sync on a syncing engine (lines 194-197).
PauseStep ==
    /\ state.status = SYNCING
    /\ state' = [state EXCEPT !.status = PAUSED]
    /\ stop_event' = TRUE
    /\ sync_thread' = sync_thread
    /\ hist' = hist

\* C36: while the sync worker is inside its loop the status is Syncing or
\* Paused, and no step of pause_sync or resume_sync next to a worker
\* inside its loop leaves the status Idle.
C36_StatusDuringPass ==
    /\ [](ProcessingPhotos => state.status \in {SYNCING, PAUSED})
    /\ [][((PauseStep \/ ResumeStep) /\ ProcessingPhotos)
            => state'.status # IDLE]_vars

(***************************************************************************)
(* The record store on disk: a start on any record file, then one pass     *)
(* that ends with a save.                                                  *)
(***************************************************************************)
\* The record file is missing, cut off, or a document with entries for
\* a.jpg, b.JPG and c.png, each of which may be malformed.
InitStoreFiles ==
    {MissingFile, TruncatedFile} \cup
    {[kind |-> "json", records |-> r, total_photos_synced |-> t,
      last_sync |-> 0] :
        r \in {e \in [AllPaths -> {NoRecord, "h1", "h2", "h3", Malformed}] :
                    /\ e["a.jpg"] \in {NoRecord, "h1", Malformed}
                    /\ e["b.JPG"] \in {NoRecord, "h2", Malformed}
                    /\ e["c.png"] \in {NoRecord, "h3", Malformed}
                    /\ e["d.jpeg"] = NoRecord
                    /\ e["notes.txt"] = NoRecord},
        t \in {0, 2}}

InitStore ==
    /\ records_file \in InitStoreFiles
    /\ files = [p \in AllPaths |->
                    IF p = "a.jpg" THEN "h1"
                    ELSE IF p = "b.JPG" THEN "h2" ELSE Absent]
    /\ sync_records = _load_sync_records(records_file).records
    /\ state = [InitState EXCEPT
                   !.total_photos_synced =
                       _load_sync_records(records_file).total_photos_synced,
                   !.last_sync = _load_sync_records(records_file).last_sync]
    /\ settings \in InitSettings
    /\ pending_photos = {}
    /\ stop_event = FALSE
    /\ sync_thread = NoSyncThread
    /\ upload_queue = <<>>
    /\ upload_thread = NoUploadThread
    /\ upload_thread_running = FALSE
    /\ stats = [total_uploads |-> 0, successful_uploads |-> 0,
                failed_uploads |-> 0]
    /\ credentials_valid = FALSE
    /\ service = FALSE
    /\ initialized = FALSE
    /\ sync_timer = FALSE
    /\ single_shots = 0
    /\ caller = NoCaller
    /\ rpi = InitRpi
    /\ camera = InitCamera
    /\ manager = InitManager
    /\ photos_sync = InitPhotosSync
    /\ hist = InitHist(sync_records)

NextStore ==
    \/ Initialize
    \/ InitialSyncFire
    \/ WorkerDiscover
    \/ WorkerLoop
    \/ WorkerPhoto
    \/ WorkerUpdate
    \/ WorkerFinish
    \/ WorkerSaveOpen
    \/ WorkerSaveDump
    \/ WorkerSaveFails
    \/ UploadGet
    \/ UploadSucceeds

SpecStore == InitStore /\ [][NextStore]_vars

\* The record file does not hold a document of well-formed entries.
Corrupt(file) ==
    \/ file.kind # "json"
    \/ \E p \in AllPaths : file.records[p] = Malformed

\* C19: at no point of a save does the record file hold less than a
\* complete document, the one before the save or the new one: a crash at
\* that point would leave it so.
C19_SaveAtomic ==
    sync_thread.pc = "dump" => records_file.kind # "unparseable"

\* C20: after construction on a missing or corrupt record file the store
\* in memory is empty.
C20_LoadAllOrNothing ==
    (~initialized /\ Corrupt(records_file)) => sync_records = NoEntries

(***************************************************************************)
(* Shutdown: SyncService.cleanup on the caller's thread, while a pass may  *)
(* be running.                                                             *)
(***************************************************************************)
\* Lines 566-570: the timer is stopped and the stop event set.
CleanupBegin ==
    /\ caller.pc = "idle"
    /\ sync_timer' = FALSE
    /\ stop_event' = TRUE
    /\ caller' = [caller EXCEPT !.pc = "join"]
    /\ UNCHANGED <<files, sync_records, pending_photos, state, sync_thread,
                   upload_queue, upload_thread, upload_thread_running, stats,
                   credentials_valid, service, initialized, settings,
                   single_shots, records_file, rpi, camera, manager, photos_sync,
                   hist>>

\* Lines 572-573: join(timeout=5) returns, because there is no live
\* worker, because the worker ended, or because the 5 seconds are over.
CleanupJoin ==
    /\ caller.pc = "join"
    /\ caller' = [caller EXCEPT !.pc = "save",
                                !.joined = (sync_thread.pc = "none"),
                                !.records = sync_records]
    /\ UNCHANGED <<files, sync_records, pending_photos, state, stop_event,
                   sync_thread, upload_queue, upload_thread,
                   upload_thread_running, stats, credentials_valid, service,
                   initialized, settings, sync_timer, single_shots,
                   records_file, rpi, camera, manager, photos_sync,
                   hist>>

\* Lines 576, 501-505: _save_sync_records begins to iterate sync_records;
\* it holds no lock.
CleanupSaveIterate ==
    /\ caller.pc = "save"
    /\ caller' = [caller EXCEPT !.pc = "iterate", !.seen = sync_records]
    /\ UNCHANGED <<files, sync_records, pending_photos, state, stop_event,
                   sync_thread, upload_queue, upload_thread,
                   upload_thread_running, stats, credentials_valid, service,
                   initialized, settings, sync_timer, single_shots,
                   records_file, rpi, camera, manager, photos_sync,
                   hist>>

\* The paths that have a record.
Keys(recs) == {p \in AllPaths : recs[p] # NoRecord}

\* Lines 505-525: the iteration ends and the document is prepared.  When
\* the worker has inserted a record meanwhile, the dict has changed size
\* and the iteration raises RuntimeError, which _save_sync_records logs
\* (lines 530-531): nothing is written.
CleanupSavePrepare ==
    /\ caller.pc = "iterate"
    /\ caller' =
           IF Keys(sync_records) = Keys(caller.seen)
           THEN [caller EXCEPT
                   !.pc = "open",
                   !.document = _save_sync_records(sync_records, state)]
           ELSE [caller EXCEPT !.pc = "shutdown"]
    /\ UNCHANGED <<files, sync_records, pending_photos, state, stop_event,
                   sync_thread, upload_queue, upload_thread,
                   upload_thread_running, stats, credentials_valid, service,
                   initialized, settings, sync_timer, single_shots,
                   records_file, rpi, camera, manager, photos_sync,
                   hist>>

\* Line 527: the record file is opened for writing, in place.
CleanupSaveOpen ==
    /\ caller.pc = "open"
    /\ records_file' = TruncatedFile
    /\ caller' = [caller EXCEPT !.pc = "dump"]
    /\ UNCHANGED <<files, sync_records, pending_photos, state, stop_event,
                   sync_thread, upload_queue, upload_thread,
                   upload_thread_running, stats, credentials_valid, service,
                   initialized, settings, sync_timer, single_shots,
                   rpi, camera, manager, photos_sync,
                   hist>>

\* Line 528: the document is written and the file closed.
CleanupSaveDump ==
    /\ caller.pc = "dump"
    /\ records_file' = caller.document
    /\ caller' = [caller EXCEPT !.pc = "shutdown"]
    /\ UNCHANGED <<files, sync_records, pending_photos, state, stop_event,
                   sync_thread, upload_queue, upload_thread,
                   upload_thread_running, stats, credentials_valid, service,
                   initialized, settings, sync_timer, single_shots,
                   rpi, camera, manager, photos_sync,
                   hist>>

\* Lines 579, google_photos.py 319-326: the upload worker is told to end.
CleanupShutdown ==
    /\ caller.pc = "shutdown"
    /\ upload_thread_running' = FALSE
    /\ caller' = [caller EXCEPT !.pc = "done"]
    /\ UNCHANGED <<files, sync_records, pending_photos, state, stop_event,
                   sync_thread, upload_queue, upload_thread, stats,
                   credentials_valid, service, initialized, settings,
                   sync_timer, single_shots, records_file, rpi, camera,
                   manager, photos_sync,
                   hist>>

\* The calls and timer callbacks of the thread that calls cleanup come
\* before it.
InitializeBeforeCleanup == caller.pc = "idle" /\ Initialize

InitialSyncBeforeCleanup == caller.pc = "idle" /\ InitialSyncFire

NextShutdown ==
    \/ InitializeBeforeCleanup
    \/ InitialSyncBeforeCleanup
    \/ WorkerDiscover
    \/ WorkerLoop
    \/ WorkerPhoto
    \/ WorkerUpdate
    \/ WorkerFinish
    \/ WorkerSaveOpen
    \/ WorkerSaveDump
    \/ UploadGet
    \/ UploadSucceeds
    \/ CleanupBegin
    \/ CleanupJoin
    \/ CleanupSaveIterate
    \/ CleanupSavePrepare
    \/ CleanupSaveOpen
    \/ CleanupSaveDump
    \/ CleanupShutdown

SpecShutdown == InitRestart /\ [][NextShutdown]_vars

\* C22: once cleanup has saved, the record file is a complete document
\* with every record that the store held when the wait for the worker
\* ended, whether or not the worker had ended by then.
C22_ShutdownSaves ==
    caller.pc \in {"shutdown", "done"} =>
        /\ records_file.kind = "json"
        /\ \A p \in AllPaths :
               caller.records[p] # NoRecord =>
                   records_file.records[p] # NoRecord

\* C32: the record map is not changed by the worker while a save of the
\* caller's thread iterates it.
C32_MapAccessSerialized ==
    [][caller.pc = "iterate" => sync_records' = sync_records]_vars

\* The step in which a pass ends with its write of the record file failed.
SaveFailedStep ==
    /\ sync_thread.pc \in {"save", "dump"}
    /\ sync_thread'.pc = "none"
    /\ records_file' = records_file

\* C21: when the write of the record store at the end of a pass fails, the
\* pass ends with the status Error and last_error set, not with Idle.
C21_SaveFailureIsError ==
    [][SaveFailedStep =>
        /\ state'.status = ERROR
        /\ state'.last_error # ""]_vars

(***************************************************************************)
(* The pass and the upload queue.                                          *)
(***************************************************************************)
\* The upload worker takes a task out of the queue (line 265).
DequeueStep == Len(upload_queue') < Len(upload_queue)

\* C25: while the status is Paused no queued task is dequeued and no
\* upload begins.
C25_PausedQueueUntouched ==
    [][(state.status = PAUSED /\ state'.status = PAUSED)
          => (/\ ~DequeueStep
              /\ upload_thread'.pc = "upload"
                    => upload_thread.pc = "upload")]_vars

\* C26: the status goes from Syncing to Idle only when the upload queue is
\* empty and no upload or retry of a task is pending.
C26_IdleOnlyWhenDrained ==
    [][(state.status = SYNCING /\ state'.status = IDLE)
          => (/\ upload_queue' = <<>>
              /\ upload_thread'.pc \notin {"upload", "backoff"})]_vars

\* The step in which the worker ends its pass with the status Idle.
PassEndsIdle ==
    /\ sync_thread.pc \in {"discover", "finish"}
    /\ sync_thread'.pc # sync_thread.pc
    /\ state'.status = IDLE

\* C27: when a pass that was not asked to stop sets the status to Idle,
\* also a pass that found no candidates, the record store has been
\* written to the record file and last_sync is the time of this pass.
C27_PersistBeforeIdle ==
    [][PassEndsIdle
          => (/\ records_file'.kind = "json"
              /\ records_file'.records = sync_records'
              /\ state'.last_sync = hist'.cycles)]_vars

(***************************************************************************)
(* Failing tasks: one pass over a.jpg and b.JPG, which may be unreadable;  *)
(* a file may be moved away under the pass, and uploads may fail.          *)
(***************************************************************************)
InitFailures ==
    /\ files \in {f \in [AllPaths -> FileStates] :
            /\ f["a.jpg"] = "h1"
            /\ f["b.JPG"] \in {"h2", Unreadable}
            /\ \A p \in AllPaths \ {"a.jpg", "b.JPG"} : f[p] = Absent}
    /\ sync_records = NoEntries
    /\ records_file = MissingFile
    /\ settings \in InitSettings
    /\ InitRest

NextFailures ==
    \/ Initialize
    \/ InitialSyncFire
    \/ Rename
    \/ WorkerDiscover
    \/ WorkerLoop
    \/ WorkerPhoto
    \/ WorkerUpdate
    \/ WorkerFinish
    \/ WorkerSaveOpen
    \/ WorkerSaveDump
    \/ UploadGet
    \/ UploadSucceeds
    \/ UploadFails
    \/ UploadRetryPut

SpecFailures == InitFailures /\ [][NextFailures]_vars

\* The step in which a transport call returns failure (line 267).
FailStep == upload_thread.pc = "upload" /\ hist'.failed = hist.failed + 1

\* The step in which the backoff sleep ends (lines 273-274).
BackoffEnds == upload_thread.pc = "backoff" /\ upload_thread'.pc # "backoff"

\* C28, as claimed: a failed task is kept for another attempt exactly when
\* its retry_count after the increment is below max_retry_attempts.
C28_RetryAsClaimed ==
    [][FailStep
          => (upload_thread'.pc = "backoff"
                <=> upload_thread.task.retry + 1 < max_retry_attempts)]_vars

\* C28, amended: a failed task whose retry_count is below
\* max_retry_attempts gets its retry_count incremented and, after the
\* backoff, is put back into the queue at its priority; any other failed
\* task is dropped and failed_uploads is incremented.
C28_RetryDecision ==
    [][/\ FailStep
          => (IF upload_thread.task.retry < max_retry_attempts
              THEN /\ upload_thread' =
                         [pc |-> "backoff",
                          task |-> [upload_thread.task EXCEPT
                                       !.retry = @ + 1]]
                   /\ stats' = stats
                   /\ upload_queue' = upload_queue
              ELSE /\ upload_thread' = [pc |-> "get", task |-> NoTask]
                   /\ stats'.failed_uploads = stats.failed_uploads + 1
                   /\ upload_queue' = upload_queue)
       /\ BackoffEnds
          => (/\ Len(upload_queue') = Len(upload_queue) + 1
              /\ \E i \in 1..Len(upload_queue') :
                     upload_queue'[i] = upload_thread.task
              /\ stats' = stats)]_vars

\* A task has failed max_retry_attempts + 1 times, was put back after all
\* but the last, and has then been dropped and counted.
C28_Witness ==
    /\ stats.failed_uploads = 1
    /\ \E d \in hist.dropped :
           d.counted /\ d.attempts = max_retry_attempts + 1

\* The step in which sync_photo returns False to the sync worker: the file
\* is gone, or the task could not be put into the queue.
PhotoFails ==
    /\ sync_thread.pc = "photo"
    /\ sync_thread'.pc # "photo"
    /\ sync_thread'.synced_count = sync_thread.synced_count

\* C30: a task that fails, in the sync worker or in the upload worker,
\* ends neither: the sync worker goes on to the next photo, the upload
\* worker to the retry or to the next task, and the status is not Error.
C30_TaskFailureNotFatal ==
    /\ [](state.status # ERROR)
    /\ [][/\ PhotoFails
              => (/\ sync_thread'.pc = "loop"
                  /\ sync_thread'.i = sync_thread.i + 1
                  /\ sync_thread'.new_photos = sync_thread.new_photos)
          /\ FailStep
              => (/\ upload_thread'.pc \in {"backoff", "get"}
                  /\ upload_thread_running')]_vars

\* The first photo of the pass was gone when its turn came and a
\* transport call has failed; the sync worker has gone on to enqueue the
\* second photo and the upload worker to upload it.
C30_Witness ==
    /\ sync_thread.pc = "update"
    /\ Len(sync_thread.new_photos) = 2
    /\ files[sync_thread.new_photos[1]] = Absent
    /\ hist.enqueued[sync_thread.new_photos[1]] = 0
    /\ hist.enqueued[sync_thread.new_photos[2]] = 1
    /\ hist.failed > 0
    /\ hist.uploaded[sync_thread.new_photos[2]] > 0
    /\ state.status # ERROR

\* C38: a file whose hash cannot be computed is never taken as already
\* synced: the "" of a failed hash matches no record of a store that
\* passes have written.
C38_FailedHashNeverSynced ==
    \A photo_path \in AllPaths :
        files[photo_path] = Unreadable
            => /\ _calculate_file_hash(files, photo_path) = ""
               /\ ~_is_photo_synced(sync_records, photo_path, "")

\* The upload of photo_path is enqueued or in the upload worker's hands.
UploadUnresolved(photo_path) ==
    \/ \E k \in 1..Len(upload_queue) : upload_queue[k].path = photo_path
    \/ upload_thread.task.path = photo_path

\* C37: a path is in pending_photos only while its upload is enqueued and
\* not yet completed; once every enqueued upload has completed, manual
\* ones included, pending_photos is empty.
C37_PendingIsUnresolved ==
    \A photo_path \in pending_photos : UploadUnresolved(photo_path)

(***************************************************************************)
(* Passes to their end: the control calls that start, pause and resume a   *)
(* pass, next to the sync worker and the upload worker, over a.jpg and     *)
(* b.JPG, which may be unreadable; uploads may fail and are retried.       *)
(***************************************************************************)
NextPass ==
    \/ Initialize
    \/ InitialSyncFire
    \/ StartSync
    \/ pause_sync
    \/ resume_sync
    \/ _periodic_sync
    \/ WorkerDiscover
    \/ WorkerLoop
    \/ WorkerPhoto
    \/ WorkerUpdate
    \/ WorkerFinish
    \/ WorkerSaveOpen
    \/ WorkerSaveDump
    \/ UploadGet
    \/ UploadSucceeds
    \/ UploadFails
    \/ UploadRetryPut

\* A step of the sync worker thread.
SyncWorker ==
    \/ WorkerDiscover
    \/ WorkerLoop
    \/ WorkerPhoto
    \/ WorkerUpdate
    \/ WorkerFinish
    \/ WorkerSaveOpen
    \/ WorkerSaveDump

\* The worker thread, while it is alive, is scheduled again and again: a
\* started Python thread runs until its target returns.  Nothing is
\* assumed of the caller or of the upload worker.
SpecPassFair == InitFailures /\ [][NextPass]_vars /\ WF_vars(SyncWorker)

\* C34: every pass terminates: whenever the status is Syncing, with the
\* worker thread scheduled fairly, the status later is Idle, Paused or
\* Error.
C34_PassTerminates ==
    (state.status = SYNCING) ~> (state.status \in {IDLE, PAUSED, ERROR})

\* A pass that went through its loop was stopped and has ended: the
\* worker is gone and the status is Paused.
C34_Witness ==
    /\ state.status = PAUSED
    /\ sync_thread.pc = "none"
    /\ state.last_sync > 0

(***************************************************************************)
(* The hardware simulators, which share nothing with the sync engine.      *)
(***************************************************************************)
SyncVars == <<files, sync_records, pending_photos, state, stop_event,
              sync_thread, upload_queue, upload_thread, upload_thread_running,
              stats, credentials_valid, service, initialized, settings,
              sync_timer, single_shots, records_file, caller, hist>>

\* An empty photo directory and no record file.
InitHardware ==
    /\ files = [p \in AllPaths |-> Absent]
    /\ sync_records = NoEntries
    /\ records_file = MissingFile
    /\ settings \in InitSettings
    /\ InitRest

GpioSetup ==
    /\ \E pin \in Pins, mode \in Modes, pull_up_down \in Pulls :
           rpi' = gpio_setup(rpi, pin, mode, pull_up_down)
    /\ UNCHANGED <<SyncVars, camera, manager, photos_sync>>

GpioOutput ==
    /\ \E pin \in Pins, value \in BOOLEAN :
           rpi' = gpio_output(rpi, pin, value)
    /\ UNCHANGED <<SyncVars, camera, manager, photos_sync>>

GpioInput ==
    /\ \E pin \in Pins, read \in BOOLEAN :
           rpi' = gpio_input(rpi, pin, read)
    /\ UNCHANGED <<SyncVars, camera, manager, photos_sync>>

GpioCleanup ==
    /\ \E pin \in Pins : rpi' = gpio_cleanup(rpi, pin)
    /\ UNCHANGED <<SyncVars, camera, manager, photos_sync>>

GpioCleanupAll ==
    /\ rpi' = gpio_cleanup_all(rpi)
    /\ UNCHANGED <<SyncVars, camera, manager, photos_sync>>

SetCameraLed ==
    /\ \E led \in BOOLEAN : rpi' = set_camera_led(rpi, led)
    /\ UNCHANGED <<SyncVars, camera, manager, photos_sync>>

NextGpio ==
    \/ GpioSetup
    \/ GpioOutput
    \/ GpioInput
    \/ GpioCleanup
    \/ GpioCleanupAll
    \/ SetCameraLed

SpecGpio == InitHardware /\ [][NextGpio]_vars

\* The step is a call of op on the simulator.
GpioCalled(op) == rpi'.last # rpi.last /\ rpi'.last.op = op

\* C23: gpio_output on a pin that is not set up, or is set up as an input,
\* returns False and leaves the mode and value of every pin and the camera
\* LED as they were; gpio_input on a pin that is not set up returns None
\* and changes nothing.
C23_GpioRejects ==
    [][/\ (GpioCalled("gpio_output")
           /\ rpi.gpio_pins[rpi'.last.pin].mode # "OUT")
          => /\ rpi'.last.ret = "False"
             /\ rpi'.gpio_pins = rpi.gpio_pins
             /\ rpi'.camera_led_state = rpi.camera_led_state
       /\ (GpioCalled("gpio_input")
           /\ rpi.gpio_pins[rpi'.last.pin] = NoPin)
          => /\ rpi'.last.ret = "None"
             /\ rpi'.gpio_pins = rpi.gpio_pins
             /\ rpi'.camera_led_state = rpi.camera_led_state
             /\ rpi'.gpio_initialized = rpi.gpio_initialized]_vars

\* gpio_output has returned False for the LED pin, set up as an input,
\* while pin 99 is not set up.
C23_Witness ==
    /\ rpi.last.op = "gpio_output"
    /\ rpi.last.pin = CameraLedPin
    /\ rpi.last.ret = "False"
    /\ rpi.gpio_pins[CameraLedPin].mode = "IN"
    /\ rpi.gpio_pins[99] = NoPin

\* The preview thread, _preview_loop: one frame.
PreviewFrame ==
    /\ camera.preview_thread = "running"
    /\ ~camera.stop_preview_event
    /\ camera.frames < MaxFrames
    /\ camera' = [camera EXCEPT !.frames = @ + 1]
    /\ UNCHANGED <<SyncVars, rpi, manager, photos_sync>>

\* The preview thread finds the stop event set and ends.
PreviewExit ==
    /\ camera.preview_thread = "running"
    /\ camera.stop_preview_event
    /\ camera' = [camera EXCEPT !.preview_thread = "ended"]
    /\ UNCHANGED <<SyncVars, rpi, manager, photos_sync>>

CameraInitialize ==
    /\ \E ok \in BOOLEAN : camera' = camera_initialize(camera, ok)
    /\ UNCHANGED <<SyncVars, rpi, manager, photos_sync>>

StartPreview ==
    /\ \E ok \in BOOLEAN : camera' = start_preview(camera, ok)
    /\ UNCHANGED <<SyncVars, rpi, manager, photos_sync>>

StopPreview ==
    /\ \E joined \in BOOLEAN : camera' = stop_preview(camera, joined)
    /\ UNCHANGED <<SyncVars, rpi, manager, photos_sync>>

CameraCleanup ==
    /\ \E joined \in BOOLEAN : camera' = camera_cleanup(camera, joined)
    /\ UNCHANGED <<SyncVars, rpi, manager, photos_sync>>

NextCamera ==
    \/ CameraInitialize
    \/ StartPreview
    \/ StopPreview
    \/ CameraCleanup
    \/ PreviewFrame
    \/ PreviewExit

SpecCamera == InitHardware /\ [][NextCamera]_vars

\* The step is a call of op on the camera.
CameraCalled(op) == camera'.last # camera.last /\ camera'.last.op = op

\* C24: start_preview succeeds only on an initialized camera, and on
\* another returns False with preview_active still false; preview_active
\* is true exactly from a successful start_preview to the next
\* stop_preview or cleanup; after cleanup is_initialized, camera_available
\* and preview_active are all false.
C24_PreviewLifecycle ==
    /\ [](camera.preview_active <=> camera.since = "start_preview")
    /\ [][/\ (CameraCalled("start_preview") /\ ~camera.is_initialized)
               => (/\ camera'.last.ret = "False"
                   /\ ~camera'.preview_active)
          /\ (CameraCalled("start_preview") /\ camera'.last.ret = "True")
               => (/\ camera.is_initialized
                   /\ camera'.preview_active)
          /\ (CameraCalled("cleanup"))
               => (/\ ~camera'.is_initialized
                   /\ ~camera'.camera_available
                   /\ ~camera'.preview_active)]_vars

\* cleanup has been called on a camera whose preview was running.
C24_Witness ==
    /\ camera.last.op = "cleanup"
    /\ camera.since = "cleanup"
    /\ camera.preview_thread = "running"
    /\ camera.stop_preview_event
    /\ ~camera.preview_active

(***************************************************************************)
(* The system manager: it creates the services and shuts them down.        *)
(***************************************************************************)
\* SystemManager.initialize(): app_created and qt_ok are what
\* _initialize_qt came to, camera_imported and camera_ok what
\* _initialize_camera, sync_created and outcome what _initialize_sync,
\* window_ok what _initialize_main_window came to.
ManagerInitialize ==
    /\ ~manager.initialize_called
    /\ \E app_created, qt_ok, camera_imported, camera_ok, sync_created,
          window_ok \in BOOLEAN, outcome \in {"noauth", "apifail", "ok"} :
           LET camera_up == camera_imported /\ camera_ok
               sync_up == settings.enabled /\ sync_created
           IN  /\ qt_ok => app_created
               /\ ~qt_ok => ~(camera_imported \/ camera_ok \/ sync_created
                                \/ window_ok)
               /\ ~camera_up => ~(sync_created \/ window_ok)
               /\ ~camera_imported => ~camera_ok
               /\ manager' = [manager EXCEPT
                      !.initialize_called = TRUE,
                      !.app = app_created,
                      !.camera_service = camera_imported,
                      !.sync_service = qt_ok /\ camera_up /\ sync_up,
                      !.main_window = qt_ok /\ camera_up /\ window_ok]
               /\ camera' = IF qt_ok /\ camera_imported
                            THEN camera_initialize(camera, camera_ok)
                            ELSE camera
               /\ IF qt_ok /\ camera_up /\ sync_up
                  THEN initialize_service(outcome)
                  ELSE UNCHANGED <<SyncVars, rpi>>
    /\ UNCHANGED photos_sync

\* CameraService.cleanup() as shutdown calls it: stop_preview, then the
\* backend's cleanup.
service_cleanup(c, joined) == camera_cleanup(c, joined)

\* SystemManager.shutdown(): the call of sync_service.stop(), a method
\* SyncService does not have, raises AttributeError, and the handler of
\* line 328 ends the shutdown there.
Shutdown ==
    /\ manager.calls < MaxShutdowns
    /\ \E joined \in BOOLEAN :
           IF manager.shutdown_in_progress
           THEN /\ manager' = [manager EXCEPT !.calls = @ + 1]
                /\ camera' = camera
           ELSE IF manager.sync_service
           THEN /\ manager' = [manager EXCEPT !.calls = @ + 1,
                                              !.shutdown_in_progress = TRUE]
                /\ camera' = camera
           ELSE /\ manager' = [manager EXCEPT
                       !.calls = @ + 1,
                       !.shutdown_in_progress = TRUE,
                       !.camera_cleaned = manager.camera_service,
                       !.window_closed = manager.main_window,
                       !.config_saved = TRUE,
                       !.app_quit = manager.app]
                /\ camera' = IF manager.camera_service
                             THEN service_cleanup(camera, joined)
                             ELSE camera
    /\ UNCHANGED <<SyncVars, rpi, photos_sync>>

NextManager ==
    \/ ManagerInitialize
    \/ Shutdown
    \/ StartPreview
    \/ StopPreview
    \/ PreviewFrame
    \/ PreviewExit

SpecManager == InitHardware /\ [][NextManager]_vars

\* The step is the first call of shutdown.
FirstShutdown == Shutdown /\ ~manager.shutdown_in_progress

\* C33: the first call of shutdown, when a sync service exists, stops it,
\* and then cleans up the camera service, closes the main window, saves
\* the configuration and quits the application, each where the object
\* exists; a second call changes nothing.
C33_ShutdownCompletes ==
    [][/\ (FirstShutdown /\ manager.sync_service)
            => (/\ manager'.sync_stopped
                /\ manager'.camera_cleaned = manager.camera_service
                /\ manager'.window_closed = manager.main_window
                /\ manager'.config_saved
                /\ manager'.app_quit = manager.app)
       /\ (Shutdown /\ manager.shutdown_in_progress)
            => (/\ camera' = camera
                /\ manager' = [manager EXCEPT !.calls = @ + 1])]_vars

(***************************************************************************)
(* GooglePhotosSync: the calls on the caller's thread next to the thread   *)
(* of _upload_worker and the thread of authenticate.  Each call is one     *)
(* step; the file of the saved queue is left out.                          *)
(***************************************************************************)
PhotosFrame == UNCHANGED <<SyncVars, rpi, camera, manager>>

QueueUpload ==
    /\ photos_sync.queued < MaxQueueUploads
    /\ \E photo_path \in AllPaths :
           photos_sync' = queue_upload(photos_sync, files, photo_path)
    /\ PhotosFrame

\* authenticate(): the thread of simulate_auth is started.
Authenticate ==
    /\ photos_sync' = [photos_sync EXCEPT !.auth_thread = TRUE]
    /\ PhotosFrame

\* simulate_auth ends: lines 123-124.
AuthThreadEnds ==
    /\ photos_sync.auth_thread
    /\ photos_sync' = [photos_sync EXCEPT !.auth_thread = FALSE,
                                          !.is_authenticated = TRUE]
    /\ PhotosFrame

\* disconnect()
Disconnect ==
    /\ photos_sync' = [photos_sync EXCEPT !.is_authenticated = FALSE]
    /\ PhotosFrame

\* _upload_worker, lines 211-222 and 274-275: the test of the while loop,
\* the head of the queue, and the check that its file still exists.
PhotosUploadHead ==
    /\ photos_sync.worker = "head"
    /\ photos_sync' =
           IF photos_sync.upload_queue = <<>> \/ ~photos_sync.is_authenticated
           THEN [photos_sync EXCEPT !.worker = "none",
                                    !.is_uploading = FALSE]
           ELSE IF ~Exists(files, photos_sync.upload_queue[1].path)
           THEN [photos_sync EXCEPT !.upload_queue = Tail(@)]
           ELSE [photos_sync EXCEPT !.worker = "uploading"]
    /\ PhotosFrame

\* _upload_worker, lines 224-272: the upload has run; raises says that an
\* exception left the try block.
PhotosUploadAttempt ==
    /\ photos_sync.worker = "uploading"
    /\ \E raises \in BOOLEAN :
           LET g == [photos_sync EXCEPT !.worker = "head"]
           IN  photos_sync' =
                   IF raises THEN AttemptFailed(g, TRUE)
                   ELSE IF g.is_authenticated
                   THEN [g EXCEPT !.upload_queue = Tail(@)]
                   ELSE AttemptFailed(g, FALSE)
    /\ PhotosFrame

\* The retry timer fires.
ProcessRetryQueue ==
    /\ \E due \in 0..Len(photos_sync.failed_uploads) :
           photos_sync' = process_retry_queue(photos_sync, due)
    /\ PhotosFrame

RetryFailedUploads ==
    /\ photos_sync' = retry_failed_uploads(photos_sync)
    /\ PhotosFrame

NextPhotosSync ==
    \/ QueueUpload
    \/ Authenticate
    \/ AuthThreadEnds
    \/ Disconnect
    \/ PhotosUploadHead
    \/ PhotosUploadAttempt
    \/ ProcessRetryQueue
    \/ RetryFailedUploads
    \/ Rename

SpecPhotosSync == InitFailures /\ [][NextPhotosSync]_vars

\* C39: upload_queue never holds two items of one path, and no path is in
\* upload_queue and in failed_uploads at once.
C39_NoDuplicateUploads ==
    /\ \A i, j \in 1..Len(photos_sync.upload_queue) :
           i # j => photos_sync.upload_queue[i].path
                       # photos_sync.upload_queue[j].path
    /\ Paths(photos_sync.upload_queue)
           \cap Paths(photos_sync.failed_uploads) = {}

====
